---- MODULE Spec2Model ----
(***************************************************************************)
(* Funnel tracker (src/app.py): the CLI contact store data/funnel.json     *)
(* with its add / update / list / summary / reset commands, and the web    *)
(* contact store data/web_contacts.json behind the HTTP JSON API.          *)
(*                                                                         *)
(* Strings that the code trims or lower-cases are sequences of one-        *)
(* character strings; an optional value (Python None or a value) is the    *)
(* empty sequence or a one-element sequence.                               *)
(***************************************************************************)
EXTENDS Integers, Sequences, FiniteSets, TLC

VARIABLES
    now,        \* the last reading of the wall clock, in milliseconds
    cliFile,    \* data/funnel.json
    argv,       \* the command line of the last CLI invocation
    out,        \* what the last CLI invocation printed
    saved,      \* whether the last CLI invocation called _save_data
    webFile,    \* data/web_contacts.json
    req,        \* the last HTTP request of the client that sends one at a time
    resp,       \* the answer to it
    th,         \* the request threads of ThreadingHTTPServer
    lastWriter, \* the thread whose save of the web store completed last
    openpyxl    \* whether the openpyxl package is installed

cliVars == <<cliFile, argv, out, saved>>
webVars == <<webFile, req, resp, th, lastWriter, openpyxl>>
seqVars == <<req, resp>>
thVars == <<th, lastWriter>>
vars == <<now, cliFile, argv, out, saved, webFile, req, resp, th, lastWriter, openpyxl>>

\* ------------------------------------------------------------------ bounds

MaxClock == 2

\* The web store is not grown beyond this many contacts.
MaxWeb == 2

\* ------------------------------------------------------------- Python values

None == <<>>
Some(v) == <<v>>
IsNone(o) == o = <<>>
Val(o) == o[1]

\* Python truthiness of an optional string: None and "" are falsy.
Truthy(o) == ~IsNone(o) /\ Val(o) # ""

\* `x or ""` for an optional string x.
OrEmpty(o) == IF Truthy(o) THEN Val(o) ELSE ""

\* str.lower() on one character.
LowerChar(c) ==
    CASE c = "A" -> "a"
      [] c = "B" -> "b"
      [] c = "Y" -> "y"
      [] OTHER -> c

\* str.lower()
Lower(s) == [i \in 1..Len(s) |-> LowerChar(s[i])]

IsSpace(c) == c = " "

RECURSIVE LStrip(_)
LStrip(s) == IF s # <<>> /\ IsSpace(Head(s)) THEN LStrip(Tail(s)) ELSE s

RECURSIVE RStrip(_)
RStrip(s) ==
    IF s # <<>> /\ IsSpace(s[Len(s)]) THEN RStrip(SubSeq(s, 1, Len(s) - 1)) ELSE s

\* str.strip()
Strip(s) == RStrip(LStrip(s))

\* datetime.utcnow().isoformat() + "Z" at clock reading t.
IsoZ(t) == <<"iso", t, "Z">>

\* json.dump / json.load of a store document.
json_dump(data) == [json |-> data]
json_load(text) == text.json

\* ------------------------------------------------------------------- files

\* A file is absent, or exists with a text; an existing file whose text is
\* None has been opened for writing (truncated) and not written yet.
AbsentFile == [exists |-> FALSE, text |-> None]
FileWith(text) == [exists |-> TRUE, text |-> Some(text)]

EmptyDoc == [contacts |-> <<>>]

_ensure_store(file) == IF ~file.exists THEN FileWith(json_dump(EmptyDoc)) ELSE file

_load_data(file) == json_load(Val(_ensure_store(file).text))

_save_data(data) == FileWith(json_dump(data))

\* ------------------------------------------------------------ CLI inputs

\* Names given to add: two spellings of one name, and another name.
AddNames == {<<"a">>, <<" ", "A", " ">>, <<"b">>}

\* A name that is never added.
Unknown == <<"c">>

\* --notes TEXT, or no --notes option.
NotesArgs == {None, Some(""), Some("n")}

\* The stage options of an update command line, for joined, challenge and
\* contact_submitted in this order, each "absent" (no option), "on"
\* (--flag) or "off" (--no-flag): none, each single option, and some
\* combinations of two and three.
FlagArgs ==
    {<<"absent", "absent", "absent">>,
     <<"on", "absent", "absent">>, <<"off", "absent", "absent">>,
     <<"absent", "on", "absent">>, <<"absent", "off", "absent">>,
     <<"absent", "absent", "on">>, <<"absent", "absent", "off">>,
     <<"on", "on", "absent">>, <<"on", "on", "on">>}

\* The update command lines: every stage option set and notes option for
\* the name as it was added, four command lines for its other spelling,
\* and two for the unknown name.
UpdateInputs ==
    ({<<"a">>} \X FlagArgs \X NotesArgs)
        \cup ({<<" ", "A", " ">>}
                 \X {<<"absent", "absent", "absent">>, <<"absent", "on", "absent">>}
                 \X {None, Some("n")})
        \cup {<<Unknown, <<"absent", "absent", "absent">>, None>>,
              <<Unknown, <<"off", "on", "absent">>, Some("n")>>}

Fields == <<"joined", "challenge", "contact_submitted">>

Filters == {None, Some("joined"), Some("challenge"), Some("contact_submitted")}

NoArgv ==
    [command |-> "", name |-> <<>>, joined |-> "absent", challenge |-> "absent",
     contact_submitted |-> "absent", notes |-> None, filter |-> None]

\* ------------------------------------------------------------ build_parser

\* The Namespace value of a stage flag registered as a store_true option
\* (--flag) followed by a store_false option (--no-flag) on the same dest:
\* argparse takes the default of the first action registered for the dest,
\* which is the store_true default False.
ParseFlag(opt) ==
    CASE opt = "on" -> Some(TRUE)
      [] opt = "off" -> Some(FALSE)
      [] OTHER -> Some(FALSE)

\* parser.parse_args(argv)
parse_args(av) ==
    [command |-> av.command, name |-> av.name,
     joined |-> ParseFlag(av.joined),
     challenge |-> ParseFlag(av.challenge),
     contact_submitted |-> ParseFlag(av.contact_submitted),
     notes |-> av.notes, filter |-> av.filter]

\* ----------------------------------------------------------- _find_contact

Key(name) == Lower(Strip(name))

RECURSIVE FindFrom(_, _, _)
FindFrom(contacts, key, i) ==
    IF i > Len(contacts) THEN 0
    ELSE IF Key(contacts[i].name) = key THEN i
    ELSE FindFrom(contacts, key, i + 1)

FindExact(data, name) ==
    LET hits == {i \in 1..Len(data.contacts) : data.contacts[i].name = name}
    IN IF hits = {} THEN 0 ELSE CHOOSE i \in hits : \A j \in hits : i <= j

\* The index of the first contact whose trimmed lower-cased name equals the
\* trimmed lower-cased `name`, 0 for None.
_find_contact(data, name) == FindFrom(data.contacts, Key(name), 1)

\* -------------------------------------------------------------- printing

Printed(msg, name, lines, counts) ==
    [msg |-> msg, name |-> name, lines |-> lines, counts |-> counts]

Say(msg, name) == Printed(msg, name, <<>>, <<>>)

\* What a command did: the store file it leaves, what it printed, and
\* whether it called _save_data.
Outcome(file, printed, didSave) == [file |-> file, out |-> printed, saved |-> didSave]

\* ------------------------------------------------------------- add_contact

NewRecord(args, t) ==
    [name |-> Strip(args.name), contacted_at |-> IsoZ(t), joined |-> FALSE,
     challenge |-> FALSE, contact_submitted |-> FALSE, notes |-> OrEmpty(args.notes)]

\* An add that appends without looking the name up.
AddAlways(file, args, t) ==
    LET data == _load_data(file)
        record == NewRecord(args, t)
    IN Outcome(_save_data([data EXCEPT !.contacts = Append(@, record)]),
               Say("Added contact", record.name), TRUE)

add_contact(file, args, t) ==
    LET data == _load_data(file)
        existing == _find_contact(data, args.name)
        record == NewRecord(args, t)
    IN IF existing # 0
       THEN Outcome(_ensure_store(file), Say("already exists", args.name), FALSE)
       ELSE Outcome(_save_data([data EXCEPT !.contacts = Append(@, record)]),
                    Say("Added contact", record.name), TRUE)

\* ---------------------------------------------------------- update_contact

\* The loop over the three stage fields: st = [contact, changed].
RECURSIVE ApplyFlags(_, _, _)
ApplyFlags(st, args, i) ==
    IF i > Len(Fields) THEN st
    ELSE LET field == Fields[i]
             value == args[field]
         IN IF ~IsNone(value) /\ st.contact[field] # Val(value)
            THEN ApplyFlags([contact |-> [st.contact EXCEPT ![field] = Val(value)],
                             changed |-> TRUE], args, i + 1)
            ELSE ApplyFlags(st, args, i + 1)

\* Notes written only when the text differs from the stored notes.
ApplyNotesIfDiffers(st, args) ==
    IF ~IsNone(args.notes) /\ st.contact.notes # Val(args.notes)
    THEN [contact |-> [st.contact EXCEPT !.notes = Val(args.notes)], changed |-> TRUE]
    ELSE st

\* Notes written only when the text is non-empty (`if args.notes:`).
ApplyNotesIfTruthy(st, args) ==
    IF Truthy(args.notes)
    THEN [contact |-> [st.contact EXCEPT !.notes = Val(args.notes)], changed |-> TRUE]
    ELSE st

ApplyNotes(st, args) ==
    IF ~IsNone(args.notes)
    THEN [contact |-> [st.contact EXCEPT !.notes = Val(args.notes)], changed |-> TRUE]
    ELSE st

\* An update that falls back to the first contact when the name is unknown.
UpdateFirstWhenUnknown(file, args) ==
    LET data == _load_data(file)
        found == _find_contact(data, args.name)
        i == IF found = 0 /\ data.contacts # <<>> THEN 1 ELSE found
    IN IF i = 0
       THEN Outcome(_ensure_store(file), Say("not found", args.name), FALSE)
       ELSE LET st == ApplyNotes(
                          ApplyFlags([contact |-> data.contacts[i], changed |-> FALSE],
                                     args, 1),
                          args)
            IN IF st.changed
               THEN Outcome(_save_data([data EXCEPT !.contacts[i] = st.contact]),
                            Say("Updated contact", st.contact.name), TRUE)
               ELSE Outcome(_ensure_store(file), Say("No updates were applied.", <<>>),
                            FALSE)

\* An update that also stamps the contact anew.
UpdateRestamps(file, args) ==
    LET data == _load_data(file)
        i == _find_contact(data, args.name)
    IN IF i = 0
       THEN Outcome(_ensure_store(file), Say("not found", args.name), FALSE)
       ELSE LET st == ApplyNotes(
                          ApplyFlags([contact |-> data.contacts[i], changed |-> FALSE],
                                     args, 1),
                          args)
            IN IF st.changed
               THEN Outcome(_save_data([data EXCEPT
                                           !.contacts[i] =
                                               [st.contact EXCEPT !.contacted_at = IsoZ(0)]]),
                            Say("Updated contact", st.contact.name), TRUE)
               ELSE Outcome(_ensure_store(file), Say("No updates were applied.", <<>>),
                            FALSE)

update_contact(file, args) ==
    LET data == _load_data(file)
        i == _find_contact(data, args.name)
    IN IF i = 0
       THEN Outcome(_ensure_store(file), Say("not found", args.name), FALSE)
       ELSE LET st == ApplyNotes(
                          ApplyFlags([contact |-> data.contacts[i], changed |-> FALSE],
                                     args, 1),
                          args)
            IN IF st.changed
               THEN Outcome(_save_data([data EXCEPT !.contacts[i] = st.contact]),
                            Say("Updated contact", st.contact.name), TRUE)
               ELSE Outcome(_ensure_store(file), Say("No updates were applied.", <<>>),
                            FALSE)

\* ----------------------------------------------------------- list_contacts

RECURSIVE SelectSeq2(_, _)
SelectSeq2(contacts, field) ==
    IF contacts = <<>> THEN <<>>
    ELSE IF Head(contacts)[field]
         THEN <<Head(contacts)>> \o SelectSeq2(Tail(contacts), field)
         ELSE SelectSeq2(Tail(contacts), field)

\* A list that ignores the filter.
Unfiltered(contacts, filter) == contacts

Filtered(contacts, filter) ==
    IF IsNone(filter) THEN contacts ELSE SelectSeq2(contacts, Val(filter))

\* One printed line: the name, the three stage markers, and the notes
\* suffix when notes are non-empty.
Line(contact) ==
    [name |-> contact.name,
     markers |-> <<IF contact.joined THEN "+ joined" ELSE "x joined",
                   IF contact.challenge THEN "+ challenge" ELSE "x challenge",
                   IF contact.contact_submitted THEN "+ 90-day contact"
                                                ELSE "x 90-day contact">>,
     notes |-> IF contact.notes # "" THEN Some(contact.notes) ELSE None]

list_contacts(file, args) ==
    LET data == _load_data(file)
        contacts == Filtered(data.contacts, args.filter)
    IN IF contacts = <<>>
       THEN Outcome(_ensure_store(file), Say("No contacts found.", <<>>), FALSE)
       ELSE Outcome(_ensure_store(file),
                    Printed("list", <<>>, [k \in 1..Len(contacts) |-> Line(contacts[k])],
                            <<>>),
                    FALSE)

\* -------------------------------------------------------- summary_contacts

\* A count of the contacts that have the flag and no other flag.
CountExclusive(contacts, field) ==
    Cardinality({k \in 1..Len(contacts) :
                    /\ contacts[k][field]
                    /\ \A i \in 1..Len(Fields) :
                          Fields[i] # field => ~contacts[k][Fields[i]]})

Count(contacts, field) == Cardinality({k \in 1..Len(contacts) : contacts[k][field]})

summary_contacts(file) ==
    LET data == _load_data(file)
        contacts == data.contacts
    IN Outcome(_ensure_store(file),
               Printed("Funnel summary:", <<>>, <<>>,
                       [total |-> Len(contacts),
                        joined |-> Count(contacts, "joined"),
                        challenge |-> Count(contacts, "challenge"),
                        contact_submitted |-> Count(contacts, "contact_submitted")]),
               FALSE)

\* -------------------------------------------------------------- reset_store

\* A reset that only makes sure the store exists.
ResetKeeps(file) == Outcome(_ensure_store(file), Say("Data store reset.", <<>>), TRUE)

reset_store(file) == Outcome(_save_data(EmptyDoc), Say("Data store reset.", <<>>), TRUE)

\* -------------------------------------------------------------------- main

\* One CLI invocation: parse the command line and run the subcommand.
Run(av, file, t) ==
    LET args == parse_args(av)
    IN CASE av.command = "add" -> add_contact(file, args, t)
         [] av.command = "update" -> update_contact(file, args)
         [] av.command = "list" -> list_contacts(file, args)
         [] av.command = "summary" -> summary_contacts(file)
         [] av.command = "reset" -> reset_store(file)

main(av, t) ==
    \E res \in {Run(av, cliFile, t)} :
        /\ argv' = av
        /\ cliFile' = res.file
        /\ out' = res.out
        /\ saved' = res.saved

\* A reading of datetime.utcnow(): the clock has not gone back since the
\* last reading.
ClockReadings == now..MaxClock

Add ==
    \E n \in AddNames, nt \in NotesArgs, t \in ClockReadings :
        /\ main([NoArgv EXCEPT !.command = "add", !.name = n, !.notes = nt], t)
        /\ now' = t
        /\ UNCHANGED webVars

Update ==
    /\ \E cmd \in UpdateInputs :
           main([NoArgv EXCEPT !.command = "update", !.name = cmd[1], !.joined = cmd[2][1],
                               !.challenge = cmd[2][2], !.contact_submitted = cmd[2][3],
                               !.notes = cmd[3]], now)
    /\ UNCHANGED <<now, webVars>>

List ==
    /\ \E f \in Filters : main([NoArgv EXCEPT !.command = "list", !.filter = f], now)
    /\ UNCHANGED <<now, webVars>>

Summary ==
    /\ main([NoArgv EXCEPT !.command = "summary"], now)
    /\ UNCHANGED <<now, webVars>>

Reset ==
    /\ main([NoArgv EXCEPT !.command = "reset"], now)
    /\ UNCHANGED <<now, webVars>>

\* =================================================================== web API

\* --------------------------------------------------------------- web store

_ensure_web_store(file) ==
    IF ~file.exists THEN FileWith(json_dump(EmptyDoc)) ELSE file

_load_web_data(file) == json_load(Val(_ensure_web_store(file).text))

_save_web_data(data) == FileWith(json_dump(data))

\* ------------------------------------------------------------------- paths

\* A request path is the sequence of its pieces of text: "/" is a piece of
\* its own, a decimal number is one piece.
ContactsPath == <<"/", "api", "/", "contacts">>
ExportPath == ContactsPath \o <<"/", "export">>
ImportPath == ContactsPath \o <<"/", "import">>

\* str(n) for the ids of the model.
Digits == <<"0", "1", "2", "3", "4", "5", "6", "7", "8", "9">>
IdText(n) == Digits[n + 1]
IdPath(n) == ContactsPath \o <<"/", IdText(n)>>

\* path.startswith(prefix)
StartsWith(path, prefix) ==
    Len(path) >= Len(prefix) /\ SubSeq(path, 1, Len(prefix)) = prefix

\* path.rsplit("/", 1)[-1]
RECURSIVE LastSegment(_)
LastSegment(path) ==
    IF path = <<>> \/ path[Len(path)] = "/" THEN <<>>
    ELSE Append(LastSegment(SubSeq(path, 1, Len(path) - 1)), path[Len(path)])

\* int(text): None stands for ValueError.
ParseInt(text) ==
    IF Len(text) = 1 /\ \E n \in 0..9 : Digits[n + 1] = text[1]
    THEN Some(CHOOSE n \in 0..9 : Digits[n + 1] = text[1])
    ELSE None

\* ---------------------------------------------------------------- requests

\* A JSON object body: each key is absent (None) or present with a value.
EmptyPayload ==
    [name |-> None, notes |-> None, joinedCommunity |-> None, tookChallenge |-> None,
     submittedPaid |-> None, customer |-> None]

\* A worksheet: the cells of its first row and of the rows below it.
Sheet(headers, rows) == [headers |-> headers, rows |-> rows]
NoSheet == Sheet(<<>>, <<>>)

\* A request body: nothing (Content-Length 0), bytes that are neither JSON
\* nor a workbook, a JSON object, or a workbook.
NoBody == [kind |-> "empty", json |-> EmptyPayload, sheet |-> NoSheet]
Garbage == [kind |-> "garbage", json |-> EmptyPayload, sheet |-> NoSheet]
JsonBody(payload) == [kind |-> "json", json |-> payload, sheet |-> NoSheet]
XlsxBody(sheet) == [kind |-> "xlsx", json |-> EmptyPayload, sheet |-> sheet]

Request(verb, path, body) == [verb |-> verb, path |-> path, body |-> body]

\* _read_json: an empty or malformed body reads as {}.
_read_json(rq) == IF rq.body.kind = "json" THEN rq.body.json ELSE EmptyPayload

\* --------------------------------------------------------------- responses

\* _set_common_headers(status) followed by the body written.
Response(status, kind, value) == [status |-> status, kind |-> kind, value |-> value]

ErrorResponse(status, message) == Response(status, "error", message)

\* What a handler did with the loaded document: the document it leaves in
\* memory, whether it saved it, and its answer.
Handled(data, save, response) == [data |-> data, save |-> save, resp |-> response]

\* ------------------------------------------------------ _handle_get_contacts

RECURSIVE FirstWithId(_, _, _)
FirstWithId(contacts, id, i) ==
    IF i > Len(contacts) THEN 0
    ELSE IF contacts[i].id = id THEN i
    ELSE FirstWithId(contacts, id, i + 1)

_handle_get_contacts(rq, data) ==
    LET contacts == data.contacts
        contact_id_int == ParseInt(LastSegment(rq.path))
        match == FirstWithId(contacts, Val(contact_id_int), 1)
    IN IF rq.path # ContactsPath
       THEN IF IsNone(contact_id_int)
            THEN Handled(data, FALSE, ErrorResponse(400, "Invalid contact id"))
            ELSE IF match = 0
            THEN Handled(data, FALSE, ErrorResponse(404, "Contact not found"))
            ELSE Handled(data, FALSE, Response(200, "contact", contacts[match]))
       ELSE Handled(data, FALSE, Response(200, "contacts", contacts))

\* ---------------------------------------------------- _handle_create_contact

\* `x or ""` for an optional string x given as its characters.
OrEmptyText(o) == IF IsNone(o) THEN <<>> ELSE Val(o)

\* bool(payload.get(key))
BoolOf(o) == IF IsNone(o) THEN FALSE ELSE Val(o)

\* (payload.get("name") or "").strip()
CreateName(payload) ==
    Strip(IF IsNone(payload.name) THEN <<>> ELSE Val(payload.name))

NewContact(payload, t1, t2) ==
    [id |-> t1,
     name |-> CreateName(payload),
     notes |-> OrEmptyText(payload.notes),
     joinedCommunity |-> BoolOf(payload.joinedCommunity),
     tookChallenge |-> BoolOf(payload.tookChallenge),
     submittedPaid |-> BoolOf(payload.submittedPaid),
     customer |-> BoolOf(payload.customer),
     dateAdded |-> IsoZ(t2)]

\* The name check made before the store is loaded: True when the request
\* is answered 400.
CreateRejected(rq) == CreateName(_read_json(rq)) = <<>>

\* t1 and t2 are the two readings of the clock, for id and dateAdded.
_handle_create_contact(rq, data, t1, t2) ==
    LET new_contact == NewContact(_read_json(rq), t1, t2)
    IN Handled([data EXCEPT !.contacts = Append(@, new_contact)], TRUE,
               Response(201, "contact", new_contact))

\* ---------------------------------------------------- _handle_update_contact

PayloadKeys == <<"name", "notes", "joinedCommunity", "tookChallenge", "submittedPaid",
                 "customer">>

\* An update that writes all six keys, an absent one as its empty value.
OverwriteAll(contact, payload, k) ==
    [contact EXCEPT
        !.name = IF IsNone(payload.name) THEN <<>> ELSE Val(payload.name),
        !.notes = IF IsNone(payload.notes) THEN <<>> ELSE Val(payload.notes),
        !.joinedCommunity = payload.joinedCommunity = Some(TRUE),
        !.tookChallenge = payload.tookChallenge = Some(TRUE),
        !.submittedPaid = payload.submittedPaid = Some(TRUE),
        !.customer = payload.customer = Some(TRUE)]

\* for key in [...]: if key in payload: contact[key] = payload[key]
RECURSIVE Overwrite(_, _, _)
Overwrite(contact, payload, k) ==
    IF k > Len(PayloadKeys) THEN contact
    ELSE LET key == PayloadKeys[k]
         IN IF ~IsNone(payload[key])
            THEN Overwrite([contact EXCEPT ![key] = Val(payload[key])], payload, k + 1)
            ELSE Overwrite(contact, payload, k + 1)

\* The id check made before the body is read and the store is loaded.
IdRejected(rq) == IsNone(ParseInt(LastSegment(rq.path)))

_handle_update_contact(rq, data) ==
    LET contact_id_int == Val(ParseInt(LastSegment(rq.path)))
        payload == _read_json(rq)
        i == FirstWithId(data.contacts, contact_id_int, 1)
    IN IF i # 0
       THEN LET contact == Overwrite(data.contacts[i], payload, 1)
            IN Handled([data EXCEPT !.contacts[i] = contact], TRUE,
                       Response(200, "contact", contact))
       ELSE Handled(data, FALSE, ErrorResponse(404, "Contact not found"))

\* ---------------------------------------------------- _handle_delete_contact

\* A delete that drops only the first contact with the id.
WithoutFirstId(contacts, id) ==
    LET i == FirstWithId(contacts, id, 1)
    IN IF i = 0 THEN contacts
       ELSE SubSeq(contacts, 1, i - 1) \o SubSeq(contacts, i + 1, Len(contacts))

RECURSIVE WithoutId(_, _)
WithoutId(contacts, id) ==
    IF contacts = <<>> THEN <<>>
    ELSE IF Head(contacts).id # id
         THEN <<Head(contacts)>> \o WithoutId(Tail(contacts), id)
         ELSE WithoutId(Tail(contacts), id)

_handle_delete_contact(rq, data) ==
    LET contact_id_int == Val(ParseInt(LastSegment(rq.path)))
        new_contacts == WithoutId(data.contacts, contact_id_int)
    IN IF Len(new_contacts) = Len(data.contacts)
       THEN Handled(data, FALSE, ErrorResponse(404, "Contact not found"))
       ELSE Handled([data EXCEPT !.contacts = new_contacts], TRUE,
                    Response(204, "empty", <<>>))

\* ------------------------------------------------------------- spreadsheets

\* The value of a cell: None, an integer, a boolean, or a string given as
\* its characters.
NoneCell == [t |-> "none", n |-> 0, b |-> FALSE, s |-> <<>>]
IntCell(n) == [t |-> "int", n |-> n, b |-> FALSE, s |-> <<>>]
BoolCell(b) == [t |-> "bool", n |-> 0, b |-> b, s |-> <<>>]
StrCell(text) == [t |-> "str", n |-> 0, b |-> FALSE, s |-> text]

\* Python truthiness of a cell value.
CellTruthy(c) ==
    CASE c.t = "none" -> FALSE
      [] c.t = "int" -> c.n # 0
      [] c.t = "bool" -> c.b
      [] c.t = "str" -> c.s # <<>>

ColumnOrder == <<"id", "name", "notes", "joinedCommunity", "tookChallenge",
                 "submittedPaid", "customer", "dateAdded">>

expected_headers == {ColumnOrder[k] : k \in 1..Len(ColumnOrder)}

\* A cell as load_workbook gives it back after workbook.save: an empty
\* string is read as an empty cell.
SavedAndLoaded(c) == IF c.t = "str" /\ c.s = <<>> THEN NoneCell ELSE c

\* The row of a contact in the exported sheet.
ExportRow(contact) ==
    <<IntCell(contact.id), StrCell(contact.name), StrCell(contact.notes),
      BoolCell(contact.joinedCommunity), BoolCell(contact.tookChallenge),
      BoolCell(contact.submittedPaid), BoolCell(contact.customer),
      StrCell(contact.dateAdded)>>

\* The workbook that _handle_export_contacts sends, as a client reads it.
ExportSheet(contacts) ==
    Sheet(ColumnOrder,
          [k \in 1..Len(contacts) |->
              [c \in 1..Len(ColumnOrder) |-> SavedAndLoaded(ExportRow(contacts[k])[c])]])

_handle_export_contacts(rq, data) ==
    Handled(data, FALSE, Response(200, "xlsx", ExportSheet(data.contacts)))

\* ---------------------------------------------------- _handle_import_contacts

\* _to_bool(value)
TrueWords == {<<"t", "r", "u", "e">>, <<"1">>, <<"y", "e", "s">>, <<"y">>}

_to_bool(c) ==
    CASE c.t = "bool" -> c.b
      [] c.t = "str" -> Lower(Strip(c.s)) \in TrueWords
      [] OTHER -> CellTruthy(c)

\* dict(zip(headers, row)).get(key): the cell under the last column that
\* is headed key.
CellOf(headers, row, key) ==
    LET cols == {c \in 1..Len(headers) : c <= Len(row) /\ headers[c] = key}
    IN IF cols = {} THEN NoneCell
       ELSE row[CHOOSE c \in cols : \A d \in cols : d <= c]

\* any(row)
AnyCell(row) == \E c \in 1..Len(row) : CellTruthy(row[c])

\* int(contact_map.get("id") or <now in ms>): None stands for ValueError.
ImportId(c, t) ==
    CASE ~CellTruthy(c) -> Some(t)
      [] c.t = "int" -> Some(c.n)
      [] c.t = "bool" -> Some(1)
      [] c.t = "str" -> ParseInt(Strip(c.s))

\* str(contact_map.get("name") or "").strip()
ImportName(c) ==
    CASE ~CellTruthy(c) -> <<>>
      [] c.t = "str" -> Strip(c.s)
      [] c.t = "int" -> <<IdText(c.n)>>
      [] c.t = "bool" -> <<"T", "r", "u", "e">>

\* contact_map.get(key) or default, for the notes and dateAdded strings.
ImportText(c, default) == IF CellTruthy(c) /\ c.t = "str" THEN c.s ELSE default

ImportContact(headers, row, t) ==
    [id |-> Val(ImportId(CellOf(headers, row, "id"), t)),
     name |-> ImportName(CellOf(headers, row, "name")),
     notes |-> ImportText(CellOf(headers, row, "notes"), <<>>),
     joinedCommunity |-> _to_bool(CellOf(headers, row, "joinedCommunity")),
     tookChallenge |-> _to_bool(CellOf(headers, row, "tookChallenge")),
     submittedPaid |-> _to_bool(CellOf(headers, row, "submittedPaid")),
     customer |-> _to_bool(CellOf(headers, row, "customer")),
     dateAdded |-> ImportText(CellOf(headers, row, "dateAdded"), IsoZ(t))]

\* The loop over the data rows: blank rows are skipped.
RECURSIVE ImportRows(_, _, _)
ImportRows(headers, rows, t) ==
    IF rows = <<>> THEN <<>>
    ELSE IF ~AnyCell(Head(rows)) THEN ImportRows(headers, Tail(rows), t)
    ELSE <<ImportContact(headers, Head(rows), t)>> \o ImportRows(headers, Tail(rows), t)

\* A data row whose id cell int() refuses: the handler raises.
ImportRaises(sheet, t) ==
    \E k \in 1..Len(sheet.rows) :
        /\ AnyCell(sheet.rows[k])
        /\ IsNone(ImportId(CellOf(sheet.headers, sheet.rows[k], "id"), t))

\* The checks of an import before any row is read: the answer when one of
\* them fails, None when the rows are read.
ImportRejected(rq, installed) ==
    CASE ~installed -> Some(ErrorResponse(500, "The openpyxl package is required"))
      [] rq.body.kind = "empty" -> Some(ErrorResponse(400, "Missing file content"))
      [] rq.body.kind # "xlsx" -> Some(ErrorResponse(400, "Invalid Excel file"))
      [] {rq.body.sheet.headers[c] : c \in 1..Len(rq.body.sheet.headers)}
            # expected_headers ->
           Some(ErrorResponse(400, "Excel sheet must contain the correct headers"))
      [] OTHER -> None

\* An import reads the clock when a row that is not blank has no id or no
\* dateAdded.
ReadsClock(rq, installed) ==
    /\ IsNone(ImportRejected(rq, installed))
    /\ \E k \in 1..Len(rq.body.sheet.rows) :
           /\ AnyCell(rq.body.sheet.rows[k])
           /\ \/ ~CellTruthy(CellOf(rq.body.sheet.headers, rq.body.sheet.rows[k], "id"))
              \/ ~CellTruthy(CellOf(rq.body.sheet.headers, rq.body.sheet.rows[k], "dateAdded"))

\* The store is replaced by the rows read; it is not loaded.
_handle_import_contacts(rq, data, t) ==
    LET new_contacts == ImportRows(rq.body.sheet.headers, rq.body.sheet.rows, t)
    IN Handled([contacts |-> new_contacts], TRUE,
               Response(200, "imported", Len(new_contacts)))

\* ------------------------------------------------------------------ routing

\* do_GET, do_POST, do_PUT, do_DELETE, do_OPTIONS: the handler a request
\* is given to.
Route(rq) ==
    CASE rq.verb = "OPTIONS" -> "options"
      [] rq.verb = "GET" ->
           IF rq.path = ExportPath THEN "export"
           ELSE IF StartsWith(rq.path, ContactsPath) THEN "get"
           ELSE "not found"
      [] rq.verb = "POST" ->
           IF rq.path = ImportPath THEN "import"
           ELSE IF rq.path = ContactsPath THEN "create"
           ELSE "not found"
      [] rq.verb = "PUT" ->
           IF StartsWith(rq.path, ContactsPath \o <<"/">>) THEN "update" ELSE "not found"
      [] rq.verb = "DELETE" ->
           IF StartsWith(rq.path, ContactsPath \o <<"/">>) THEN "delete" ELSE "not found"

\* The answer of a request that is answered before the store is touched,
\* None for a request that goes on to the store.
Early(rq, installed) ==
    LET handler == Route(rq)
    IN CASE handler = "not found" -> Some(ErrorResponse(404, "Not found"))
         [] handler = "options" -> Some(Response(200, "empty", <<>>))
         [] handler = "create" /\ CreateRejected(rq) ->
              Some(ErrorResponse(400, "Name is required"))
         [] handler \in {"update", "delete"} /\ IdRejected(rq) ->
              Some(ErrorResponse(400, "Invalid contact id"))
         [] handler = "export" /\ ~installed ->
              Some(ErrorResponse(500, "The openpyxl package is required"))
         [] handler = "import" -> ImportRejected(rq, installed)
         [] OTHER -> None

\* The handler's work on the loaded document.
OnData(rq, data, t1, t2) ==
    LET handler == Route(rq)
    IN CASE handler = "get" -> _handle_get_contacts(rq, data)
         [] handler = "export" -> _handle_export_contacts(rq, data)
         [] handler = "create" -> _handle_create_contact(rq, data, t1, t2)
         [] handler = "update" -> _handle_update_contact(rq, data)
         [] handler = "delete" -> _handle_delete_contact(rq, data)

\* An uncaught exception: the connection is closed without an answer.
Raised(what) == Response(0, "no answer", what)

\* A server that empties the store before it rejects an upload.
ServeClearsOnReject(file, rq, t1, t2, installed) ==
    IF ~IsNone(Early(rq, installed))
    THEN [file |-> IF Route(rq) = "import" THEN _save_web_data(EmptyDoc) ELSE file,
          resp |-> Val(Early(rq, installed))]
    ELSE IF Route(rq) = "import"
    THEN IF ImportRaises(rq.body.sheet, t1)
         THEN [file |-> file, resp |-> Raised("ValueError")]
         ELSE LET h == _handle_import_contacts(rq, EmptyDoc, t1)
              IN [file |-> _save_web_data(h.data), resp |-> h.resp]
    ELSE LET h == OnData(rq, _load_web_data(file), t1, t2)
         IN [file |-> IF h.save THEN _save_web_data(h.data) ELSE _ensure_web_store(file),
             resp |-> h.resp]

\* One request served from begin to end with no other request in between:
\* the file it leaves and its answer.
Serve(file, rq, t1, t2, installed) ==
    IF ~IsNone(Early(rq, installed))
    THEN [file |-> file, resp |-> Val(Early(rq, installed))]
    ELSE IF Route(rq) = "import"
    THEN IF ImportRaises(rq.body.sheet, t1)
         THEN [file |-> file, resp |-> Raised("ValueError")]
         ELSE LET h == _handle_import_contacts(rq, EmptyDoc, t1)
              IN [file |-> _save_web_data(h.data), resp |-> h.resp]
    ELSE LET h == OnData(rq, _load_web_data(file), t1, t2)
         IN [file |-> IF h.save THEN _save_web_data(h.data) ELSE _ensure_web_store(file),
             resp |-> h.resp]

\* ------------------------------------------------------------ HTTP inputs

CreateBodies ==
    {NoBody, Garbage,
     JsonBody([EmptyPayload EXCEPT !.name = Some(<<" ", " ">>)]),
     JsonBody([EmptyPayload EXCEPT !.name = Some(<<" ", "a", " ">>)]),
     JsonBody([EmptyPayload EXCEPT !.name = Some(<<"b">>), !.notes = Some(<<"n">>),
                                   !.customer = Some(TRUE)])}

UpdateBodies ==
    {NoBody,
     JsonBody([EmptyPayload EXCEPT !.name = Some(<<" ">>), !.joinedCommunity = Some(TRUE),
                                   !.customer = Some(FALSE)])}

\* A data row for the given header row, from the cells by column name.
RowFor(headers, cells) == [c \in 1..Len(headers) |-> cells[headers[c]]]

BlankCells ==
    [id |-> NoneCell, name |-> NoneCell, notes |-> NoneCell, joinedCommunity |-> NoneCell,
     tookChallenge |-> NoneCell, submittedPaid |-> NoneCell, customer |-> NoneCell,
     dateAdded |-> NoneCell]

CellsA(id) ==
    [BlankCells EXCEPT !.id = IntCell(id), !.name = StrCell(<<"a">>),
                       !.joinedCommunity = BoolCell(FALSE), !.tookChallenge = BoolCell(FALSE),
                       !.submittedPaid = BoolCell(FALSE), !.customer = BoolCell(FALSE),
                       !.dateAdded = StrCell(IsoZ(1))]

CellsB(id) ==
    [BlankCells EXCEPT !.id = IntCell(id), !.name = StrCell(<<"b">>),
                       !.notes = StrCell(<<"n">>),
                       !.joinedCommunity = BoolCell(TRUE), !.tookChallenge = BoolCell(FALSE),
                       !.submittedPaid = BoolCell(FALSE), !.customer = BoolCell(TRUE),
                       !.dateAdded = StrCell(IsoZ(1))]

\* Hand-written cells: no id, no dateAdded, a padded name, flags as text.
CellsLoose ==
    [BlankCells EXCEPT !.name = StrCell(<<" ", "a", " ">>),
                       !.joinedCommunity = StrCell(<<" ", "Y">>),
                       !.tookChallenge = StrCell(<<"n", "o">>),
                       !.customer = IntCell(1)]

ReversedOrder == [c \in 1..Len(ColumnOrder) |-> ColumnOrder[Len(ColumnOrder) + 1 - c]]

\* The workbooks uploaded: two contacts; two contacts with one id; columns
\* in another order with a blank row and a hand-written row; a header row
\* without the customer column; an id that is no number.
ImportSheets ==
    {Sheet(ColumnOrder, <<RowFor(ColumnOrder, CellsA(1)), RowFor(ColumnOrder, CellsB(2))>>),
     Sheet(ColumnOrder, <<RowFor(ColumnOrder, CellsA(1)), RowFor(ColumnOrder, CellsB(1))>>),
     Sheet(ReversedOrder, <<RowFor(ReversedOrder, BlankCells),
                            RowFor(ReversedOrder, CellsLoose)>>),
     Sheet(SubSeq(ColumnOrder, 1, 6) \o <<"dateAdded">>,
           <<RowFor(SubSeq(ColumnOrder, 1, 6) \o <<"dateAdded">>, CellsA(1))>>),
     Sheet(ColumnOrder,
           <<RowFor(ColumnOrder, [CellsA(1) EXCEPT !.id = StrCell(<<"x">>)])>>)}

\* Paths under /api/contacts/: the ids the clock can give, a non-integer
\* id, and an empty id.
IdPaths ==
    {IdPath(n) : n \in 1..MaxClock}
        \cup {ContactsPath \o <<"/", "x">>, ContactsPath \o <<"/">>}

\* Requests that no route matches.
UnroutedRequests ==
    {Request("GET", <<"/">>, NoBody),
     Request("GET", <<"/", "api">>, NoBody),
     Request("POST", ContactsPath \o <<"x">>, NoBody),
     Request("PUT", ContactsPath, NoBody),
     Request("DELETE", ContactsPath \o <<"x">>, NoBody)}

\* ----------------------------------------------------------- specification

NoRequest == Request("", <<>>, NoBody)
NoResponse == Response(0, "empty", <<>>)

\* Two request threads.
Threads == {"T1", "T2"}

\* A thread: where it is in its request (idle, load, work, write, done),
\* the request, the document it loaded, what its handler made of it, and
\* its answer.
Thread(pc, rq, loaded, result, response) ==
    [pc |-> pc, req |-> rq, loaded |-> loaded, result |-> result, resp |-> response]

NoResult == Handled(EmptyDoc, FALSE, NoResponse)
IdleThread == Thread("idle", NoRequest, EmptyDoc, NoResult, NoResponse)

\* The CLI: the store does not exist yet, and no server runs.
Init ==
    /\ now = 1
    /\ cliFile = AbsentFile
    /\ argv = NoArgv
    /\ out = Say("", <<>>)
    /\ saved = FALSE
    /\ webFile = AbsentFile
    /\ req = NoRequest
    /\ resp = NoResponse
    /\ th = [t \in Threads |-> IdleThread]
    /\ lastWriter = "none"
    /\ openpyxl = TRUE

Next == Add \/ Update \/ List \/ Summary \/ Reset

Spec == Init /\ [][Next]_vars

\* The contacts in the CLI store (none while the file does not exist).
Contacts == IF cliFile.exists THEN json_load(Val(cliFile.text)).contacts ELSE <<>>

\* The server, started by serve_api, answering one client that sends its
\* next request after the answer to the last one.
InitWeb ==
    /\ now = 1
    /\ cliFile = AbsentFile
    /\ argv = NoArgv
    /\ out = Say("", <<>>)
    /\ saved = FALSE
    /\ webFile = _ensure_web_store(AbsentFile)
    /\ req = NoRequest
    /\ resp = NoResponse
    /\ th = [t \in Threads |-> IdleThread]
    /\ lastWriter = "none"
    /\ openpyxl \in BOOLEAN

\* The contacts in the web store.
WebContacts == json_load(Val(webFile.text)).contacts

\* A request served whole; t1 and t2 are its readings of the clock.
Served(rq, t1, t2) ==
    \E res \in {Serve(webFile, rq, t1, t2, openpyxl)} :
        /\ req' = rq
        /\ webFile' = res.file
        /\ resp' = res.resp
        /\ UNCHANGED <<cliVars, thVars, openpyxl>>

\* A create that is not rejected reads the clock for the id and for
\* dateAdded; both readings fall in the same millisecond t.
Post ==
    \E body \in CreateBodies :
        /\ Len(WebContacts) < MaxWeb
        /\ IF CreateRejected(Request("POST", ContactsPath, body))
           THEN /\ Served(Request("POST", ContactsPath, body), now, now)
                /\ UNCHANGED now
           ELSE \E t \in ClockReadings :
                    /\ Served(Request("POST", ContactsPath, body), t, t)
                    /\ now' = t

Get ==
    /\ \E path \in {ContactsPath, ContactsPath \o <<"x">>} \cup IdPaths :
           Served(Request("GET", path, NoBody), now, now)
    /\ UNCHANGED now

Put ==
    /\ \E path \in IdPaths, body \in UpdateBodies :
           Served(Request("PUT", path, body), now, now)
    /\ UNCHANGED now

Delete ==
    /\ \E path \in IdPaths : Served(Request("DELETE", path, NoBody), now, now)
    /\ UNCHANGED now

Options ==
    /\ Served(Request("OPTIONS", ContactsPath, NoBody), now, now)
    /\ UNCHANGED now

Unrouted ==
    /\ \E rq \in UnroutedRequests :
           /\ Route(rq) = "not found"
           /\ Served(rq, now, now)
    /\ UNCHANGED now

\* An upload: nothing, bytes that are no workbook, one of the workbooks, or
\* the workbook an export of the store has just given.
Import ==
    \E body \in {NoBody, Garbage} \cup {XlsxBody(sh) : sh \in ImportSheets}
                  \cup {XlsxBody(ExportSheet(WebContacts))} :
        IF ReadsClock(Request("POST", ImportPath, body), openpyxl)
        THEN \E t \in ClockReadings :
                 /\ Served(Request("POST", ImportPath, body), t, t)
                 /\ now' = t
        ELSE /\ Served(Request("POST", ImportPath, body), now, now)
             /\ UNCHANGED now

Export ==
    /\ Served(Request("GET", ExportPath, NoBody), now, now)
    /\ UNCHANGED now

NextWeb == Post \/ Get \/ Put \/ Delete \/ Options \/ Unrouted \/ Import \/ Export

SpecWeb == InitWeb /\ [][NextWeb]_vars

\* ------------------------------------------------------ concurrent requests

\* The file between open(path, "w") and the write of json.dump.
Truncated == [exists |-> TRUE, text |-> None]

\* The requests sent concurrently.
ConcRequests ==
    {Request("POST", ContactsPath, NoBody),
     Request("POST", ContactsPath, JsonBody([EmptyPayload EXCEPT !.name = Some(<<"a">>)])),
     Request("POST", ContactsPath, JsonBody([EmptyPayload EXCEPT !.name = Some(<<"b">>)])),
     Request("PUT", IdPath(1), JsonBody([EmptyPayload EXCEPT !.notes = Some(<<"n">>)])),
     Request("DELETE", IdPath(1), NoBody),
     Request("GET", ContactsPath, NoBody)}

InFlightCreates ==
    {t \in Threads : th[t].pc \in {"load", "work", "write"} /\ Route(th[t].req) = "create"}

\* A connection is accepted and its thread (one thread per request) reads
\* the request; a request that needs no store is answered at once.
Begin(t) ==
    \E rq \in ConcRequests :
        /\ th[t].pc = "idle"
        /\ (Route(rq) = "create" /\ IsNone(Early(rq, openpyxl)))
              => (~IsNone(webFile.text)
                  /\ Len(WebContacts) + Cardinality(InFlightCreates) < MaxWeb)
        /\ th' = [th EXCEPT ![t] =
                     IF IsNone(Early(rq, openpyxl))
                     THEN Thread("load", rq, EmptyDoc, NoResult, NoResponse)
                     ELSE Thread("done", rq, EmptyDoc, NoResult, Val(Early(rq, openpyxl)))]
        /\ UNCHANGED <<now, cliVars, seqVars, webFile, lastWriter, openpyxl>>

\* json.load fails on a file that holds no text: the handler raises and
\* the connection is closed without an answer.
Crashed == Raised("JSONDecodeError")

\* data = _load_web_data()
LoadStep(t) ==
    /\ th[t].pc = "load"
    /\ th' = [th EXCEPT ![t] =
                 IF IsNone(webFile.text)
                 THEN [@ EXCEPT !.pc = "done", !.resp = Crashed]
                 ELSE [@ EXCEPT !.pc = "work", !.loaded = _load_web_data(webFile)]]
    /\ UNCHANGED <<now, cliVars, seqVars, webFile, lastWriter, openpyxl>>

\* The document as it is in the file when the handler starts to work, were
\* the file read again under a lock.
FreshBase(t) == IF IsNone(webFile.text) THEN th[t].loaded ELSE _load_web_data(webFile)

\* The document a handler works on is the one its thread loaded.
Base(t) == th[t].loaded

\* The handler changes its document in memory; a handler that saves then
\* opens the file for writing, and one that does not answers.
WorkStep(t) ==
    /\ th[t].pc = "work"
    /\ \E t1 \in ClockReadings :
         \E t2 \in t1..MaxClock :
           \E h \in {OnData(th[t].req, Base(t), t1, t2)} :
              /\ Route(th[t].req) # "create" => (t1 = now /\ t2 = now)
              /\ now' = t2
              /\ IF h.save
                 THEN /\ th' = [th EXCEPT ![t].pc = "write", ![t].result = h]
                      /\ webFile' = Truncated
                 ELSE /\ th' = [th EXCEPT ![t].pc = "done", ![t].result = h,
                                          ![t].resp = h.resp]
                      /\ UNCHANGED webFile
    /\ UNCHANGED <<cliVars, seqVars, lastWriter, openpyxl>>

\* json.dump writes the document and the file is closed; the answer follows.
WriteStep(t) ==
    /\ th[t].pc = "write"
    /\ webFile' = _save_web_data(th[t].result.data)
    /\ th' = [th EXCEPT ![t].pc = "done", ![t].resp = th[t].result.resp]
    /\ lastWriter' = t
    /\ UNCHANGED <<now, cliVars, seqVars, openpyxl>>

NextWebConc == \E t \in Threads : Begin(t) \/ LoadStep(t) \/ WorkStep(t) \/ WriteStep(t)

\* The stores the concurrent requests find: an empty one, and one that a
\* POST has filled with a contact.
StoresAtStart ==
    {EmptyDoc,
     [contacts |-> <<NewContact([EmptyPayload EXCEPT !.name = Some(<<"a">>)], 1, 1)>>]}

\* The server with two requests in flight, each on a thread of its own.
InitWebConc ==
    /\ now = 1
    /\ cliFile = AbsentFile
    /\ argv = NoArgv
    /\ out = Say("", <<>>)
    /\ saved = FALSE
    /\ \E data \in StoresAtStart : webFile = _save_web_data(data)
    /\ req = NoRequest
    /\ resp = NoResponse
    /\ th = [t \in Threads |-> IdleThread]
    /\ lastWriter = "none"
    /\ openpyxl = TRUE

SpecWebConc == InitWebConc /\ [][NextWebConc]_vars

\* ------------------------------------------------------------ CLI claims

\* The step is a CLI invocation of subcommand cmd (argv' is its command line).
CliStep(cmd) == argv'.command = cmd /\ cliVars' # cliVars

\* The positions of the contacts whose trimmed lower-cased name equals the
\* trimmed lower-cased `name`.
Match(contacts, name) ==
    {i \in 1..Len(contacts) : Lower(Strip(contacts[i].name)) = Lower(Strip(name))}

First(S) == CHOOSE i \in S : \A j \in S : i <= j

OptionsGiven(av) ==
    {f \in {"joined", "challenge", "contact_submitted"} : av[f] # "absent"}

StageFields == {"joined", "challenge", "contact_submitted"}

\* C1: no two contacts of the CLI store have names that are equal after
\* trimming surrounding whitespace and lower-casing.
C1_UniqueNames ==
    \A i, j \in 1..Len(Contacts) :
        i # j => Lower(Strip(Contacts[i].name)) # Lower(Strip(Contacts[j].name))

\* An add of another spelling of a stored name was refused, with two
\* contacts in the store.
C1_Witness ==
    /\ Len(Contacts) = 2
    /\ argv.command = "add"
    /\ out.msg = "already exists"
    /\ \E i \in Match(Contacts, argv.name) : Contacts[i].name # Strip(argv.name)

\* C4: an add whose name matches a stored contact (trimmed, lower-cased)
\* leaves the store as it was, reports "already exists" and saves nothing.
C4_AddExistingNoChange ==
    [][(CliStep("add") /\ Match(Contacts, argv'.name) # {})
          => /\ cliFile' = cliFile
             /\ Contacts' = Contacts
             /\ out'.msg = "already exists"
             /\ ~saved']_vars

\* An add spelled differently from the stored name was refused.
C4_Witness ==
    /\ argv.command = "add"
    /\ out.msg = "already exists"
    /\ Contacts # <<>>
    /\ \A i \in 1..Len(Contacts) : Contacts[i].name # argv.name
    /\ Match(Contacts, argv.name) # {}

\* C5 as claimed: an update whose name matches no contact leaves the store
\* file identical and reports not-found.
C5_UnknownFileIdentical ==
    [][(CliStep("update") /\ Match(Contacts, argv'.name) = {})
          => (cliFile' = cliFile /\ out'.msg = "not found")]_vars

\* C5 amended: an update whose name matches no contact reports not-found,
\* saves nothing and leaves the contact list as it was; an existing store
\* file stays identical, a missing one is created with an empty list.
C5_UnknownNoChange ==
    [][(CliStep("update") /\ Match(Contacts, argv'.name) = {})
          => /\ out'.msg = "not found"
             /\ ~saved'
             /\ Contacts' = Contacts
             /\ cliFile.exists => cliFile' = cliFile
             /\ ~cliFile.exists => cliFile' = FileWith(json_dump(EmptyDoc))]_vars

\* An update with stage options and notes was refused as not found while
\* the store held a contact.
C5_Witness ==
    /\ argv.command = "update"
    /\ out.msg = "not found"
    /\ Contacts # <<>>
    /\ OptionsGiven(argv) # {}
    /\ ~IsNone(argv.notes)

\* C6 as claimed: an update with exactly one stage option F and no notes
\* changes at most field F of the matched contact and nothing else, so the
\* total and the counts of the two other stages stay as they were; a
\* summary reports the counts of the store.
C6_OneFlagOnly ==
    [][/\ (CliStep("update") /\ Match(Contacts, argv'.name) # {}
              /\ Cardinality(OptionsGiven(argv')) = 1 /\ IsNone(argv'.notes))
          => LET i == First(Match(Contacts, argv'.name))
                 F == CHOOSE f \in OptionsGiven(argv') : TRUE
             IN /\ Len(Contacts') = Len(Contacts)
                /\ \A k \in 1..Len(Contacts) : k # i => Contacts'[k] = Contacts[k]
                /\ Contacts'[i] = [Contacts[i] EXCEPT ![F] = Contacts'[i][F]]
                /\ \A g \in StageFields \ {F} : Count(Contacts', g) = Count(Contacts, g)
       /\ CliStep("summary")
          => /\ out'.counts.total = Len(Contacts)
             /\ \A g \in StageFields : out'.counts[g] = Count(Contacts, g)]_vars

\* C7 as claimed: an update of an existing contact saves only if a field of
\* the contact changed value, and otherwise reports "no updates applied".
C7_SaveOnlyIfValueChanged ==
    [][(CliStep("update") /\ Match(Contacts, argv'.name) # {})
          => /\ saved' => Contacts' # Contacts
             /\ Contacts' = Contacts
                  => (~saved' /\ out'.msg = "No updates were applied.")]_vars

\* C7 amended: an update of an existing contact saves exactly when a stage
\* flag changed value or notes were given; otherwise the store is not
\* written and "no updates applied" is reported.
C7_SaveIffChangedOrNotes ==
    [][CliStep("update")
          => \A M \in {Match(Contacts, argv'.name)} :
                M # {}
                  => \A i \in {First(M)}, before \in {Contacts}, after \in {Contacts'} :
                        /\ saved' <=> \/ \E f \in StageFields : after[i][f] # before[i][f]
                                      \/ ~IsNone(argv'.notes)
                        /\ saved' => out'.msg = "Updated contact"
                        /\ ~saved' => /\ out'.msg = "No updates were applied."
                                       /\ cliFile' = cliFile]_vars

\* An update without notes changed nothing and was not saved.
C7_Witness ==
    /\ argv.command = "update"
    /\ out.msg = "No updates were applied."
    /\ ~saved
    /\ IsNone(argv.notes)
    /\ Len(Contacts) = 2

\* C8: an update of an existing contact with notes given (the empty string
\* included) stores the given text, saves and reports the update; without
\* notes the stored notes stay.
C8_NotesAlwaysOverwrite ==
    [][CliStep("update")
          => \A M \in {Match(Contacts, argv'.name)} :
                M # {}
                  => \A i \in {First(M)} :
                        IF ~IsNone(argv'.notes)
                        THEN /\ Contacts'[i].notes = Val(argv'.notes)
                             /\ saved'
                             /\ out'.msg = "Updated contact"
                        ELSE Contacts'[i].notes = Contacts[i].notes]_vars

\* An update giving only empty notes, and no stage option, was saved.
C8_Witness ==
    /\ argv.command = "update"
    /\ argv.notes = Some("")
    /\ OptionsGiven(argv) = {}
    /\ out.msg = "Updated contact"
    /\ saved
    /\ \E i \in Match(Contacts, argv.name) :
          /\ Contacts[i].notes = ""
          /\ \A f \in StageFields : ~Contacts[i][f]

\* C9: after reset the store holds an empty contact list, and a summary
\* run directly after it reports 0 for the total and for each stage.
C9_ResetThenSummaryZero ==
    /\ [](argv.command = "reset" => (cliFile.exists /\ Contacts = <<>>))
    /\ [][(argv.command = "reset" /\ CliStep("summary"))
            => out'.counts = [total |-> 0, joined |-> 0, challenge |-> 0,
                              contact_submitted |-> 0]]_vars

\* A reset has run and left an existing store with no contacts.
C9_Witness ==
    /\ argv.command = "reset"
    /\ out.msg = "Data store reset."
    /\ saved
    /\ cliFile = FileWith(json_dump(EmptyDoc))
    /\ now > 1

\* ------------------------------------------------------------ web claims

WebFlags == {"joinedCommunity", "tookChallenge", "submittedPaid", "customer"}

\* The name a JSON body gives, "" when it gives none.
OrEmptyName(body) ==
    IF body.kind = "json" /\ ~IsNone(body.json.name) THEN Val(body.json.name) ELSE <<>>

\* C2: no two contacts of the web store have the same id.
C2_UniqueIds ==
    \A i, j \in 1..Len(WebContacts) : i # j => WebContacts[i].id # WebContacts[j].id

\* C10: a POST /api/contacts whose name is non-empty after trimming is
\* answered 201 with the created object (a numeric id, the trimmed name,
\* each flag false unless given, a dateAdded), and a GET of the returned id
\* sent next is answered 200 with the identical object.
C10_CreateThenGet ==
    /\ []((req.verb = "POST" /\ req.path = ContactsPath
             /\ Strip(OrEmptyName(req.body)) # <<>>)
            => /\ resp.status = 201
               /\ resp.kind = "contact"
               /\ resp.value.id \in Nat
               /\ resp.value.name = Strip(OrEmptyName(req.body))
               /\ \A f \in WebFlags :
                     resp.value[f] = (req.body.json[f] = Some(TRUE))
               /\ resp.value.dateAdded # <<>>)
    /\ [][(req.verb = "POST" /\ resp.status = 201
             /\ req'.verb = "GET" /\ req'.path = IdPath(resp.value.id))
            => (resp'.status = 200 /\ resp'.kind = "contact"
                /\ resp'.value = resp.value)]_vars

\* C3: requests take no lock around load, change and save, so the store
\* left by the save that completed last is exactly what that request made
\* of the document it had loaded itself; a change another request saved
\* after that load is overwritten (a lost update) though both were
\* answered with success.
C3_LastSaveOverwrites ==
    \A u \in Threads :
        (lastWriter = u /\ ~IsNone(webFile.text))
            => /\ \E t1, t2 \in 1..MaxClock :
                    th[u].result = OnData(th[u].req, th[u].loaded, t1, t2)
               /\ WebContacts = th[u].result.data.contacts

\* Two POST /api/contacts were both answered 201 with different objects,
\* and the store holds the contact of only one of them.
C3_Witness ==
    \E t, u \in Threads :
        /\ t # u
        /\ th[t].pc = "done" /\ th[u].pc = "done"
        /\ th[t].req.verb = "POST" /\ th[u].req.verb = "POST"
        /\ th[t].resp.status = 201 /\ th[u].resp.status = 201
        /\ th[t].resp.value # th[u].resp.value
        /\ ~IsNone(webFile.text)
        /\ \A i \in 1..Len(WebContacts) : WebContacts[i] # th[t].resp.value
        /\ \E i \in 1..Len(WebContacts) : WebContacts[i] = th[u].resp.value

\* A POST answered 201 and a PUT answered 200, and the store holds the
\* contact the POST created but not the notes the PUT wrote.
C3_WitnessPostPut ==
    \E t, u \in Threads :
        /\ th[t].pc = "done" /\ th[u].pc = "done"
        /\ th[t].req.verb = "PUT" /\ th[u].req.verb = "POST"
        /\ th[t].resp.status = 200 /\ th[u].resp.status = 201
        /\ ~IsNone(webFile.text)
        /\ \A i \in 1..Len(WebContacts) : WebContacts[i] # th[t].resp.value
        /\ \E i \in 1..Len(WebContacts) : WebContacts[i] = th[u].resp.value

\* The request is one of the malformed requests: a create whose name is
\* missing, empty or blank; a GET, PUT or DELETE whose id segment is no
\* integer; an upload, with the spreadsheet library there, that is empty,
\* unparsable or has a header row other than the eight columns.
Malformed(rq, installed) ==
    \/ /\ rq.verb = "POST" /\ rq.path = ContactsPath
       /\ Strip(OrEmptyName(rq.body)) = <<>>
    \/ /\ rq.verb \in {"GET", "PUT", "DELETE"}
       /\ Len(rq.path) = Len(ContactsPath) + 2
       /\ SubSeq(rq.path, 1, Len(ContactsPath) + 1) = ContactsPath \o <<"/">>
       /\ rq.path[Len(rq.path)] \notin {Digits[d] : d \in 1..Len(Digits)} \cup {"export"}
    \/ /\ rq.verb = "POST" /\ rq.path = ImportPath /\ installed
       /\ \/ rq.body.kind # "xlsx"
          \/ {rq.body.sheet.headers[c] : c \in 1..Len(rq.body.sheet.headers)}
                # {"id", "name", "notes", "joinedCommunity", "tookChallenge",
                   "submittedPaid", "customer", "dateAdded"}

\* C11: every request answered 400 leaves the web store as it was, and
\* each malformed request is answered 400.
C11_BadRequestNoChange ==
    [][/\ resp'.status = 400 => webFile' = webFile
       /\ Malformed(req', openpyxl) => (resp'.status = 400 /\ webFile' = webFile)]_vars

\* An upload with a wrong header row was answered 400 while the store held
\* two contacts.
C11_Witness ==
    /\ req.verb = "POST" /\ req.path = ImportPath
    /\ req.body.kind = "xlsx"
    /\ resp.status = 400
    /\ resp.value = "Excel sheet must contain the correct headers"
    /\ Len(WebContacts) = 2

\* The ids of the contacts of a list.
IdsOf(contacts) == {contacts[i].id : i \in 1..Len(contacts)}

OtherThan(n, contact) == contact.id # n

\* C12: a DELETE of an integer id that no contact has is answered 404 and
\* leaves the store as it was; a DELETE of an id that some contact has is
\* answered 204, after it no contact has the id, and the contacts with
\* another id are all kept, unchanged and in their order.
C12_DeleteById ==
    [][\A n \in 1..MaxClock :
          (req'.verb = "DELETE" /\ req'.path = IdPath(n))
            => IF n \notin IdsOf(WebContacts)
               THEN resp'.status = 404 /\ webFile' = webFile
               ELSE /\ resp'.status = 204
                    /\ n \notin IdsOf(WebContacts')
                    /\ WebContacts' = SelectSeq(WebContacts, LAMBDA c : OtherThan(n, c))]_vars

\* A DELETE was answered 204 and a contact with another id is still there.
C12_Witness ==
    /\ req.verb = "DELETE"
    /\ resp.status = 204
    /\ WebContacts # <<>>
    /\ \A n \in 1..MaxClock : req.path = IdPath(n) => n \notin IdsOf(WebContacts)

\* The upload is a workbook whose header row is the eight columns, sent to
\* a server that has the spreadsheet library.
ValidUpload(rq, installed) ==
    /\ rq.verb = "POST" /\ rq.path = ImportPath /\ installed
    /\ rq.body.kind = "xlsx"
    /\ {rq.body.sheet.headers[c] : c \in 1..Len(rq.body.sheet.headers)}
          = {"id", "name", "notes", "joinedCommunity", "tookChallenge",
             "submittedPaid", "customer", "dateAdded"}

\* The data rows of a sheet that are not blank, in row order.
DataRows(sheet) == SelectSeq(sheet.rows, AnyCell)

\* C13: an import of a workbook with a valid header row and N data rows
\* (blank rows not counted) is answered 200 with imported = N and leaves
\* exactly N contacts, one per data row in row order, whatever the store
\* held before.
C13_ImportReplaces ==
    [][ValidUpload(req', openpyxl)
          => \A rows \in {DataRows(req'.body.sheet)} :
                /\ resp'.status = 200
                /\ resp'.kind = "imported"
                /\ resp'.value = Len(rows)
                /\ Len(WebContacts') = Len(rows)
                /\ \A k \in 1..Len(rows) :
                      WebContacts'[k].name
                        = ImportName(CellOf(req'.body.sheet.headers, rows[k], "name"))]_vars

\* C14: an export answered with the workbook of the store, followed by an
\* import of that workbook, leaves the same list of contacts: same ids,
\* names, notes, flags and dateAdded.
C14_ExportImportRoundTrip ==
    [][(/\ req.verb = "GET" /\ req.path = ExportPath /\ resp.status = 200
        /\ req'.verb = "POST" /\ req'.path = ImportPath
        /\ req'.body = XlsxBody(resp.value))
          => (resp'.status = 200 /\ WebContacts' = WebContacts)]_vars

\* C15: every contact of the web store has a name that is not empty after
\* trimming.
C15_NamesNonEmpty ==
    \A i \in 1..Len(WebContacts) : Strip(WebContacts[i].name) # <<>>

\* The keys a PUT may overwrite.
UpdatableKeys ==
    {"name", "notes", "joinedCommunity", "tookChallenge", "submittedPaid", "customer"}

\* The JSON object of a body, {} when the body is not a JSON object.
ObjectOf(body) ==
    IF body.kind = "json" THEN body.json ELSE [key \in UpdatableKeys |-> <<>>]

\* C16: a PUT of an integer id that a contact has overwrites in the first
\* such contact exactly the updatable keys present in the body and is
\* answered 200 with the updated contact; its id, its dateAdded, its keys
\* absent from the body and every other contact stay as they were. A PUT
\* of an integer id that no contact has is answered 404 and leaves the
\* store as it was.
C16_PutOverwritesGivenKeys ==
    [][\A n \in 1..MaxClock :
          (req'.verb = "PUT" /\ req'.path = IdPath(n))
            => IF n \notin IdsOf(WebContacts)
               THEN resp'.status = 404 /\ webFile' = webFile
               ELSE \A before \in {WebContacts}, after \in {WebContacts'},
                       given \in {ObjectOf(req'.body)} :
                      \A i \in {CHOOSE i \in 1..Len(before) :
                                    /\ before[i].id = n
                                    /\ \A j \in 1..(i - 1) : before[j].id # n} :
                         /\ resp'.status = 200
                         /\ resp'.value = after[i]
                         /\ Len(after) = Len(before)
                         /\ \A k \in 1..Len(before) : k # i => after[k] = before[k]
                         /\ after[i].id = before[i].id
                         /\ after[i].dateAdded = before[i].dateAdded
                         /\ \A key \in UpdatableKeys :
                               after[i][key] = IF given[key] = <<>> THEN before[i][key]
                                               ELSE given[key][1]]_vars

\* A PUT that gave a name and no notes was answered 200; the contact has
\* the name given and still has its notes, and another contact is stored.
C16_Witness ==
    /\ req.verb = "PUT"
    /\ resp.status = 200
    /\ req.body.kind = "json"
    /\ req.body.json.name = <<<<" ">>>>
    /\ req.body.json.notes = <<>>
    /\ resp.value.name = <<" ">>
    /\ resp.value.notes = <<"n">>
    /\ Len(WebContacts) = 2

\* The path is /api/contacts/{id}: /api/contacts/ and at most one more
\* segment.
IsItemPath(path) ==
    /\ Len(path) \in {Len(ContactsPath) + 1, Len(ContactsPath) + 2}
    /\ SubSeq(path, 1, Len(ContactsPath) + 1) = ContactsPath \o <<"/">>
    /\ path[Len(path)] = "/" => Len(path) = Len(ContactsPath) + 1

\* The request matches a row of the routing table.
InRoutingTable(rq) ==
    \/ rq.verb = "GET" /\ (rq.path \in {ContactsPath, ExportPath} \/ IsItemPath(rq.path))
    \/ rq.verb = "POST" /\ rq.path \in {ContactsPath, ImportPath}
    \/ rq.verb \in {"PUT", "DELETE"} /\ IsItemPath(rq.path)

\* C17: a GET, POST, PUT or DELETE that matches no row of the routing
\* table is answered 404 with the error "Not found" and leaves the web
\* store as it was.
C17_UnroutedNotFound ==
    [][(req'.verb \in {"GET", "POST", "PUT", "DELETE"} /\ ~InRoutingTable(req'))
          => /\ resp'.status = 404
             /\ resp'.kind = "error"
             /\ resp'.value = "Not found"
             /\ webFile' = webFile]_vars

\* ------------------------------------------------------ more CLI claims

HasFlag(f, contact) == contact[f]

\* The contacts a list with the given filter is to show.
Listed(contacts, filter) ==
    IF filter = <<>> THEN contacts
    ELSE SelectSeq(contacts, LAMBDA c : HasFlag(filter[1], c))

\* C18: list shows every contact without a filter, and with a filter
\* exactly the contacts whose flag is true, in store order; it reports
\* "No contacts found." exactly when there is none to show; it does not
\* change the store.
C18_ListShowsFiltered ==
    [][CliStep("list")
          => \A shown \in {Listed(Contacts, argv'.filter)} :
                /\ (out'.msg = "No contacts found.") <=> (shown = <<>>)
                /\ shown # <<>>
                     => /\ Len(out'.lines) = Len(shown)
                        /\ \A k \in 1..Len(shown) : out'.lines[k].name = shown[k].name
                /\ Contacts' = Contacts
                /\ ~saved'
                /\ cliFile.exists => cliFile' = cliFile]_vars

\* A filtered list showed one of two contacts.
C18_Witness ==
    /\ argv.command = "list"
    /\ argv.filter = <<"challenge">>
    /\ out.msg = "list"
    /\ Len(out.lines) = 1
    /\ Len(Contacts) = 2
    /\ out.lines[1].name = Contacts[2].name

\* C19: add, update, list and summary keep, for every contact of the
\* store, its contacted_at, its name and its place in the list; an add
\* that creates a contact puts it last with the time of the add.
C19_ContactedAtImmutable ==
    [][argv'.command \in {"add", "update", "list", "summary"}
          => \A before \in {Contacts}, after \in {Contacts'} :
                /\ Len(after) \in {Len(before), Len(before) + 1}
                /\ \A k \in 1..Len(before) :
                      /\ after[k].contacted_at = before[k].contacted_at
                      /\ after[k].name = before[k].name
                /\ Len(after) = Len(before) + 1
                     => /\ argv'.command = "add"
                        /\ after[Len(after)].contacted_at = IsoZ(now')]_vars

\* An update was saved for a contact that had been added at an earlier
\* time.
C19_Witness ==
    /\ argv.command = "update"
    /\ out.msg = "Updated contact"
    /\ saved
    /\ now = MaxClock
    /\ Len(Contacts) = 2
    /\ \E k \in 1..Len(Contacts) :
          /\ Contacts[k].name = out.name
          /\ Contacts[k].contacted_at = IsoZ(1)
          /\ Contacts[k].joined

\* The number of contacts that have the flag.
Having(contacts, f) == Cardinality({i \in 1..Len(contacts) : contacts[i][f]})

\* C20: summary reports the number of contacts as total and, for each
\* stage, the number of contacts with that flag, whatever their other
\* flags; each count is between 0 and total; the store is not changed.
C20_SummaryCounts ==
    [][CliStep("summary")
          => /\ out'.counts.total = Len(Contacts)
             /\ \A f \in StageFields :
                   /\ out'.counts[f] = Having(Contacts, f)
                   /\ out'.counts[f] \in 0..out'.counts.total
             /\ Contacts' = Contacts
             /\ ~saved'
             /\ cliFile.exists => cliFile' = cliFile]_vars

\* A summary counted one contact in two stages.
C20_Witness ==
    /\ argv.command = "summary"
    /\ out.counts.total = 2
    /\ out.counts.joined = 1
    /\ out.counts.challenge = 1
    /\ out.counts.contact_submitted = 0
    /\ \E k \in 1..Len(Contacts) : Contacts[k].joined /\ Contacts[k].challenge

\* ------------------------------------------------- more concurrency claims

\* C21: a save of the web store is never seen half done: a load by a
\* request that runs while another request saves finds a complete
\* document, the one from before the save or the one it writes, never an
\* empty or cut file, so no request ends with a parse error.
C21_SaveNeverHalfDone ==
    \A t \in Threads :
        ~(th[t].pc = "done" /\ th[t].resp.kind = "no answer"
            /\ th[t].resp.value = "JSONDecodeError")

====
